---- MODULE Spec2Model ----
(***************************************************************************)
(* git-split-branch: the run of rootCmd.Run (src/main.go, lines 40-332)   *)
(* as a state machine.  One run goes                                      *)
(*   resolve -> diff -> plan -> write temp file -> editor -> read back    *)
(*   -> record HEAD -> (per group: checkout base, create branch, copy     *)
(*   and stage each file, commit if dirty) -> restore original branch.    *)
(* The version-control backend (go-git), the editor and the YAML codec    *)
(* are collaborators: they are modelled by what the calls made in         *)
(* main.go ask of them.                                                    *)
(***************************************************************************)
EXTENDS Integers, Sequences, FiniteSets, TLC

VARIABLES
    refs,           \* branch name -> commit: the repository's branch references
    HEAD,           \* the branch the working tree is checked out to
    index,          \* the staging area: path -> content
    worktree,       \* the files on disk: path -> content
    origHead,       \* history: the branch checked out before the run began
    before,         \* history: refs, index and worktree before the run began
    filesPerBranch, \* the --number flag
    baseCommit,     \* snapshot of the base branch, resolved once
    sourceCommit,   \* snapshot of the source branch, resolved once
    diffFiles,      \* the Diff Collector's list
    cfg,            \* the Partition Planner's plan
    tmpFile,        \* the lines of the temporary plan file (<<>>: no file)
    tmpExists,      \* whether the temporary file is on disk
    editorExit,     \* "notrun", "zero", "nonzero"
    decoded,        \* whether yaml.Unmarshal has returned without error
    editedConfig,   \* the decoded, edited plan
    currentBranch,  \* the branch name recorded from repo.Head()
    gi,             \* 1-based position in editedConfig of the group in progress
    fi,             \* 1-based position in the group's files of the file in progress
    pc,             \* the position of the run in rootCmd.Run
    exit,           \* "running", "ok" (status 0), "fatal" (log.Fatalf), "panic"
    log             \* history: the repository operations performed, in order

vars == <<refs, HEAD, index, worktree, origHead, before, filesPerBranch,
          baseCommit,
          sourceCommit, diffFiles, cfg, tmpFile, tmpExists, editorExit, decoded,
          editedConfig, currentBranch, gi, fi, pc, exit, log>>

(***************************************************************************)
(* Bounds and universes.                                                   *)
(***************************************************************************)
\* The largest number of groups the edited plan holds.
MaxGroups == 2
\* The largest --number drawn for the Partition Planner on its own.
MaxN == 3

\* The --base and --source flags and the default --prefix.
baseBranch == "main"
sourceBranch == "feature"
branchPrefix == "split"

\* The paths of the repository of a whole run, in the order a tree walk
\* reports them, and the paths of the Diff Collector run on its own.
PathOrder == <<"a.txt", "b.txt">>
DiffPathOrder == <<"a.txt", "b.txt", "c.txt">>
\* The files handed to the Partition Planner run on its own.
PlanFileOrder == <<"f1", "f2", "f3", "f4", "f5">>

Range(s) == {s[i] : i \in 1..Len(s)}
Paths == Range(PathOrder)
\* A path on disk that is in no tree.
LocalPath == "notes.txt"

\* Contents: Absent is "no such path"; "v1" and "v2" are two different file
\* contents; "local" is the content of a file on disk that nobody tracks.
Absent == "absent"

\* The branch names a user may type as a group name: a branch that exists
\* and the two names the planner generates.
GroupNames == {baseBranch, "split_1", "split_2"}
\* --number as given to a whole run.
NumberFlags == {1, 2}

(***************************************************************************)
(* Commits.  A commit is its tree, its parents, its message (the files    *)
(* it names), its author identity and its author time.                    *)
(***************************************************************************)
EmptyTree(paths) == [p \in paths |-> Absent]

NoCommit ==
    [tree |-> EmptyTree(Paths \cup {LocalPath}), parents |-> <<>>, msg |-> <<>>,
     author |-> "", when |-> ""]

MkCommit(tree, parents, msg, author, when) ==
    [tree |-> tree, parents |-> parents, msg |-> msg,
     author |-> author, when |-> when]

\* repo.Reference(name, true): does the branch resolve?
HasRef(name) == name \in DOMAIN refs

(***************************************************************************)
(* Diff Collector (main.go 113-140).                                      *)
(***************************************************************************)
\* baseTree.Diff(sourceTree): one change per path whose entry differs, in
\* tree-walk order; From/To carry the name on the side where the path exists.
RECURSIVE TreeDiff(_, _, _)
TreeDiff(base, source, order) ==
    IF order = <<>> THEN <<>>
    ELSE LET p == Head(order)
             rest == TreeDiff(base, source, Tail(order))
         IN  IF p \notin DOMAIN base \/ base[p] = source[p] THEN rest
             ELSE <<[From |-> IF base[p] = Absent THEN "" ELSE p,
                     To   |-> IF source[p] = Absent THEN "" ELSE p]>> \o rest

\* change.Action(): Insert when From is empty, Delete when To is empty.
ChangeAction(change) ==
    IF change.From = "" THEN "Insert"
    ELSE IF change.To = "" THEN "Delete"
    ELSE "Modify"

\* A slip: deletions are kept.
KeepsDeletions(change) == FALSE

\* main.go 127-129: a deletion is dropped.
IsDropped(change) == ChangeAction(change) = "Delete"

\* main.go 130-135: the name of the new side, else of the old side.
ChangeFileName(change) ==
    IF change.To # "" THEN change.To
    ELSE IF change.From # "" THEN change.From
    ELSE ""

\* main.go 120-140: the loop over changes, with fileSet and diffFiles.
RECURSIVE CollectLoop(_, _, _)
CollectLoop(changes, fileSet, acc) ==
    IF changes = <<>> THEN acc
    ELSE LET change == Head(changes)
             fileName == ChangeFileName(change)
         IN  IF IsDropped(change)
             THEN CollectLoop(Tail(changes), fileSet, acc)
             ELSE IF fileName # "" /\ fileName \notin fileSet
             THEN CollectLoop(Tail(changes), fileSet \cup {fileName},
                              Append(acc, fileName))
             ELSE CollectLoop(Tail(changes), fileSet, acc)

CollectDiffFiles(changes) == CollectLoop(changes, {}, <<>>)

\* The tree-walk order restricted to the paths of a tree.
OrderOf(tree) ==
    SelectSeq(DiffPathOrder, LAMBDA p : p \in DOMAIN tree)

(***************************************************************************)
(* Partition Planner (main.go 149-165).                                   *)
(***************************************************************************)
\* Go's integer division truncates toward zero (b # 0).
GoDiv(a, b) ==
    LET abs(x) == IF x < 0 THEN -x ELSE x
        q == abs(a) \div abs(b)
    IN  IF (a < 0) = (b < 0) THEN q ELSE -q

\* A slip: the ceiling is dropped, so a short last group is lost.
NumBranchesFloor(totalFiles, n) == GoDiv(totalFiles, n)

\* main.go 150.
NumBranches(totalFiles, n) == GoDiv(totalFiles + n - 1, n)

\* main.go 155-159: the bounds of group i (0-based).
GroupStart(i, n) == i * n
GroupEnd(i, n, totalFiles) ==
    LET end == GroupStart(i, n) + n
    IN  IF end > totalFiles THEN totalFiles ELSE end

\* diffFiles[start:end] is defined when 0 <= start <= end <= len.
SliceOk(start, end, len) == 0 <= start /\ start <= end /\ end <= len

\* A slip: the groups are numbered from 0.
GroupNameFromZero(prefix, i) == prefix \o "_" \o ToString(i)

\* main.go 161: fmt.Sprintf("%s_%d", branchPrefix, i+1).
GroupName(prefix, i) == prefix \o "_" \o ToString(i + 1)

\* main.go 153-165: the plan; defined when no slice panics.
PlanOk(files, n) ==
    /\ n # 0
    /\ \A i \in 0..(NumBranches(Len(files), n) - 1) :
          SliceOk(GroupStart(i, n), GroupEnd(i, n, Len(files)), Len(files))

PartitionPlan(files, n, prefix) ==
    [i \in 1..NumBranches(Len(files), n) |->
        [name  |-> GroupName(prefix, i - 1),
         files |-> SubSeq(files, GroupStart(i - 1, n) + 1,
                          GroupEnd(i - 1, n, Len(files)))]]

(***************************************************************************)
(* Plan Codec (main.go 167-178, 218-221).  The text is a sequence of      *)
(* lines; a line is a comment, a blank, the "branches:" key, a            *)
(* "- name: v" entry, a "files:" key, a "- v" item, or junk.              *)
(***************************************************************************)
Line(k, v) == [k |-> k, v |-> v]

\* A slip: the explanatory lines are written without the comment mark.
descriptionUnmarked == <<Line("junk", ""), Line("junk", ""), Line("blank", "")>>

\* main.go 168-169: two comment lines and a blank line.
description == <<Line("comment", ""), Line("comment", ""), Line("blank", "")>>

RECURSIVE Items(_)
Items(files) ==
    IF files = <<>> THEN <<>>
    ELSE <<Line("item", Head(files))>> \o Items(Tail(files))

RECURSIVE MarshalGroups(_)
MarshalGroups(groups) ==
    IF groups = <<>> THEN <<>>
    ELSE <<Line("name", Head(groups).name), Line("files", "")>>
         \o Items(Head(groups).files) \o MarshalGroups(Tail(groups))

\* yaml.Marshal(&cfg), main.go 172.
Marshal(plan) == <<Line("branches", "")>> \o MarshalGroups(plan)

\* main.go 178: the description is prepended.
Encode(plan) == description \o Marshal(plan)

\* The groups of a document body; err when a line is out of place.
RECURSIVE ParseGroups(_, _)
ParseGroups(lines, acc) ==
    IF lines = <<>> THEN [err |-> FALSE, plan |-> acc]
    ELSE LET l == Head(lines)
         IN  IF l.k = "name"
             THEN ParseGroups(Tail(lines),
                              Append(acc, [name |-> l.v, files |-> <<>>]))
             ELSE IF l.k = "files" /\ acc # <<>>
             THEN ParseGroups(Tail(lines), acc)
             ELSE IF l.k = "item" /\ acc # <<>>
             THEN ParseGroups(Tail(lines),
                      [acc EXCEPT ![Len(acc)].files = Append(@, l.v)])
             ELSE [err |-> TRUE, plan |-> acc]

\* yaml.Unmarshal(editedData, &editedConfig), main.go 219: comments and blank
\* lines are not content; an empty document decodes to the zero plan.
Unmarshal(text) ==
    LET content == SelectSeq(text, LAMBDA l : l.k \notin {"comment", "blank"})
    IN  IF content = <<>> THEN [err |-> FALSE, plan |-> <<>>]
        ELSE IF Head(content).k # "branches" THEN [err |-> TRUE, plan |-> <<>>]
        ELSE ParseGroups(Tail(content), <<>>)

(***************************************************************************)
(* What the user may leave in the file.                                    *)
(***************************************************************************)
FileLists ==
    {<<>>} \cup {<<p>> : p \in Paths} \cup {PathOrder}

EditedGroups == [name : GroupNames, files : FileLists]

EditedPlans == UNION {[1..m -> EditedGroups] : m \in 0..MaxGroups}

(***************************************************************************)
(* The version-control backend, as main.go uses it.                        *)
(***************************************************************************)
HeadCommit == refs[HEAD]

\* A file on disk that is in no index and in no tree being checked out.
IsUntrackedAt(p, target) ==
    index[p] = Absent /\ worktree[p] # Absent /\ target[p] = Absent

\* worktree.Checkout of a commit's tree: tracked files follow the tree,
\* untracked files stay.
CheckedOutWorktree(target) ==
    [p \in DOMAIN worktree |->
        IF IsUntrackedAt(p, target) THEN worktree[p] ELSE target[p]]

\* worktree.Status().IsClean(), main.go 301-305: every path of the status,
\* untracked files included, is unmodified in the staging area and on disk.
IsClean ==
    \A p \in DOMAIN worktree :
        index[p] = HeadCommit.tree[p] /\ worktree[p] = index[p]

\* Whether the staging area holds a change against the checked-out commit.
HasStagedChanges == index # HeadCommit.tree

\* sourceTree.File(file), main.go 263: does the snapshot hold the path?
InSourceTree(file) ==
    file \in DOMAIN sourceCommit.tree /\ sourceCommit.tree[file] # Absent

\* A call made to the backend: the operation, the position of the group it is
\* made for (0: none), the branch or file it names, and whether it succeeded.
Ev(op, g, name, file, ok) ==
    [op |-> op, g |-> g, name |-> name, file |-> file, ok |-> ok]

(***************************************************************************)
(* The run.                                                                *)
(***************************************************************************)
repoVars == <<refs, HEAD, index, worktree>>
planVars == <<diffFiles, cfg>>
editVars == <<tmpFile, tmpExists, editorExit, decoded, editedConfig>>
loopVars == <<currentBranch, gi, fi>>
inputVars == <<origHead, before, filesPerBranch>>
snapVars == <<baseCommit, sourceCommit>>

Running == exit = "running"

\* The trees of base and source: per path, absent in both, added, deleted,
\* unchanged or modified.
TreePairs(paths) ==
    {bs \in [paths -> {Absent, "v1"}] \X [paths -> {Absent, "v1", "v2"}] :
        \A p \in paths : bs[2][p] = "v2" => bs[1][p] = "v1"}

\* A tree over the paths of the repository, seen with the local path.
OnDisk(tree) == (LocalPath :> Absent) @@ tree

BaseCommitOf(tree) == MkCommit(tree, <<>>, <<"base">>, "someone", "baseWhen")
SourceCommitOf(tree, base) ==
    MkCommit(tree, <<base>>, <<"source">>, "someone", "sourceWhen")

\* The state before rootCmd.Run starts: a repository with the base and the
\* source branch, one of them checked out with a clean working tree, and
\* possibly a local file nobody tracks, at a path no branch knows.
Init ==
    \E bs \in TreePairs(Paths), h \in {baseBranch, sourceBranch},
       n \in NumberFlags, local \in BOOLEAN :
        LET bc == BaseCommitOf(OnDisk(bs[1]))
            sc == SourceCommitOf(OnDisk(bs[2]), bc)
            r  == (baseBranch :> bc) @@ (sourceBranch :> sc)
        IN  /\ refs = r
            /\ HEAD = h
            /\ origHead = h
            /\ index = r[h].tree
            /\ worktree = [r[h].tree EXCEPT
                              ![LocalPath] = IF local THEN "local" ELSE Absent]
            /\ before = [refs |-> r, index |-> r[h].tree,
                         worktree |-> [r[h].tree EXCEPT
                              ![LocalPath] = IF local THEN "local" ELSE Absent]]
            /\ filesPerBranch = n
            /\ baseCommit = NoCommit
            /\ sourceCommit = NoCommit
            /\ diffFiles = <<>>
            /\ cfg = <<>>
            /\ tmpFile = <<>>
            /\ tmpExists = FALSE
            /\ editorExit = "notrun"
            /\ decoded = FALSE
            /\ editedConfig = <<>>
            /\ currentBranch = ""
            /\ gi = 0
            /\ fi = 0
            /\ pc = "resolve"
            /\ exit = "running"
            /\ log = <<>>

\* main.go 61-111: the base and source references are resolved to their
\* commits and trees.
Resolve ==
    /\ Running /\ pc = "resolve"
    /\ baseCommit' = refs[baseBranch]
    /\ sourceCommit' = refs[sourceBranch]
    /\ pc' = "diff"
    /\ UNCHANGED <<repoVars, inputVars, planVars, editVars, loopVars, exit, log>>

\* main.go 113-147: the diff is collected; an empty list ends the run.
DiffCollect ==
    /\ Running /\ pc = "diff"
    /\ LET changes == TreeDiff(baseCommit.tree, sourceCommit.tree,
                               OrderOf(baseCommit.tree))
           files == CollectDiffFiles(changes)
       IN  /\ diffFiles' = files
           /\ IF Len(files) = 0
              THEN pc' = "done" /\ exit' = "ok"
              ELSE pc' = "plan" /\ exit' = exit
    /\ UNCHANGED <<repoVars, inputVars, snapVars, cfg, editVars, loopVars, log>>

\* main.go 149-165: the plan is built; a zero --number divides by zero and a
\* slice out of range panics.
Plan ==
    /\ Running /\ pc = "plan"
    /\ IF PlanOk(diffFiles, filesPerBranch)
       THEN /\ cfg' = PartitionPlan(diffFiles, filesPerBranch, branchPrefix)
            /\ pc' = "write"
            /\ exit' = exit
       ELSE /\ exit' = "panic"
            /\ UNCHANGED <<cfg, pc>>
    /\ UNCHANGED <<repoVars, inputVars, snapVars, diffFiles, editVars, loopVars,
                   log>>

\* main.go 172-188: the text is written to a fresh temporary file.
WriteTempOf(text) ==
    /\ Running /\ pc = "write"
    /\ tmpFile' = text
    /\ tmpExists' = TRUE
    /\ pc' = "editor"
    /\ UNCHANGED <<repoVars, inputVars, snapVars, planVars, editorExit, decoded,
                   editedConfig, loopVars, exit, log>>

\* main.go 167-188: the plan is encoded behind its description and written.
WriteTemp == WriteTempOf(Encode(cfg))

\* What the file holds when the editor exits with status zero: the file
\* untouched, the file with its comment lines removed, the file emptied, any
\* plan within the bounds, or a text that does not parse (junk after, or in
\* place of, the plan).
EditedTexts ==
    {tmpFile, Marshal(cfg), <<>>}
    \cup {Encode(plan) : plan \in EditedPlans}
    \cup {Append(tmpFile, Line("junk", "")), <<Line("junk", "")>>}

\* main.go 190-209: the editor runs in the foreground; a launch failure or a
\* non-zero exit is fatal.
EditorExits(texts) ==
    /\ Running /\ pc = "editor"
    /\ \/ /\ editorExit' = "nonzero"
          /\ exit' = "fatal"
          /\ UNCHANGED <<tmpFile, pc>>
       \/ \E text \in texts :
          /\ tmpFile' = text
          /\ editorExit' = "zero"
          /\ pc' = "read"
          /\ exit' = exit
    /\ UNCHANGED <<repoVars, inputVars, snapVars, planVars, tmpExists, decoded,
                   editedConfig, loopVars, log>>

RunEditor == EditorExits(EditedTexts)

\* A slip: the error yaml.Unmarshal returns is not looked at.
IgnoresParseError(result) == FALSE

\* main.go 219: err != nil.
ParseFailed(result) == result.err

\* main.go 211-221: the file is read back and removed, and the text decoded;
\* a read error or a parse error is fatal.  The read error comes first: the
\* run is stopped at 214, before os.Remove at 216.  Removing the file that
\* was just read is taken to succeed (its error is dropped at 216).
ReadBack ==
    /\ Running /\ pc = "read"
    /\ \/ /\ exit' = "fatal"
          /\ UNCHANGED <<tmpFile, tmpExists, decoded, editedConfig, pc>>
       \/ LET result == Unmarshal(tmpFile)
          IN  /\ tmpFile' = <<>>
              /\ tmpExists' = FALSE
              /\ decoded' = ~result.err
              /\ IF ParseFailed(result)
                 THEN exit' = "fatal" /\ UNCHANGED <<editedConfig, pc>>
                 ELSE /\ editedConfig' = result.plan
                      /\ pc' = "head"
                      /\ exit' = exit
    /\ UNCHANGED <<repoVars, inputVars, snapVars, planVars, editorExit, loopVars,
                   log>>

\* main.go 223-233: the checked-out branch is recorded.
RecordHead ==
    /\ Running /\ pc = "head"
    /\ currentBranch' = HEAD
    /\ gi' = 1
    /\ pc' = "loop"
    /\ UNCHANGED <<repoVars, inputVars, snapVars, planVars, editVars, fi, exit,
                   log>>

InLoop == Running /\ pc = "loop" /\ gi <= Len(editedConfig)
CurGroup == editedConfig[gi]

\* A slip: an empty group is materialized like any other.
NeverSkipsGroup(group) == FALSE

\* main.go 238: len(group.Files) == 0.
SkipsGroup(group) == Len(group.files) = 0

\* main.go 236-241: a group with no files is passed over.
SkipGroup ==
    /\ InLoop /\ SkipsGroup(CurGroup)
    /\ gi' = gi + 1
    /\ UNCHANGED <<repoVars, inputVars, snapVars, planVars, editVars,
                   currentBranch, fi, pc, exit, log>>

\* main.go 244-250: the base branch is checked out by name; a failure is fatal.
CheckoutBase ==
    /\ InLoop /\ ~SkipsGroup(CurGroup)
    /\ \E ok \in BOOLEAN :
        /\ log' = Append(log, Ev("checkout_base", gi, baseBranch, "", ok))
        /\ IF ok /\ HasRef(baseBranch)
           THEN /\ HEAD' = baseBranch
                /\ index' = refs[baseBranch].tree
                /\ worktree' = CheckedOutWorktree(refs[baseBranch].tree)
                /\ pc' = "create"
                /\ exit' = exit
           ELSE /\ exit' = "fatal"
                /\ UNCHANGED <<HEAD, index, worktree, pc>>
    /\ UNCHANGED <<refs, inputVars, snapVars, planVars, editVars, loopVars>>

\* A slip: an existing branch of the group's name is taken over.
CreateNeverFails(name) == FALSE

\* main.go 251-258, Create: true: creating a branch whose name is taken fails.
CreateFails(name) == HasRef(name)

\* A slip: the branch is started where the previous group's branch ended.
BranchStartAtLast ==
    IF gi > 1 /\ HasRef(editedConfig[gi - 1].name)
    THEN refs[editedConfig[gi - 1].name]
    ELSE baseCommit

\* main.go 254: Hash: baseCommit.Hash.
BranchStart == baseCommit

\* main.go 251-258: the group's branch is created at the base commit and
\* checked out; a failure is fatal.
CreateBranch ==
    /\ Running /\ pc = "create"
    /\ LET name == CurGroup.name
           ok == ~CreateFails(name)
       IN  /\ log' = Append(log, Ev("create", gi, name, "", ok))
           /\ IF ok
              THEN /\ refs' = (name :> BranchStart) @@ refs
                   /\ HEAD' = name
                   /\ index' = BranchStart.tree
                   /\ worktree' = CheckedOutWorktree(BranchStart.tree)
                   /\ fi' = 1
                   /\ pc' = "files"
                   /\ exit' = exit
              ELSE /\ exit' = "fatal"
                   /\ UNCHANGED <<repoVars, fi, pc>>
    /\ UNCHANGED <<inputVars, snapVars, planVars, editVars, currentBranch, gi>>

InFiles == Running /\ pc = "files" /\ fi <= Len(CurGroup.files)

\* A slip: the file loop walks the diff list, not the group's list.
CurFileFromDiff ==
    IF fi <= Len(diffFiles) THEN diffFiles[fi] ELSE CurGroup.files[fi]

\* A slip: the files of a group are walked from the last to the first.
CurFileBackwards == CurGroup.files[Len(CurGroup.files) - fi + 1]

\* main.go 261: for _, file := range group.Files.
CurFile == CurGroup.files[fi]

\* A slip: a path the snapshot does not hold is fatal.
MissingIsFatal(file) == FALSE

\* main.go 263-267: a path that is not in the source tree is skipped.
SkipsFile(file) == ~InSourceTree(file)

\* main.go 261-298: one file of the group: skipped with a warning when the
\* source tree does not hold it, else written from the source tree and
\* staged; a write or staging failure is fatal.
CopyFileFrom(tree) ==
    /\ InFiles
    /\ IF SkipsFile(CurFile)
       THEN /\ log' = Append(log, Ev("warn", gi, CurGroup.name, CurFile, TRUE))
            /\ fi' = fi + 1
            /\ UNCHANGED <<index, worktree, exit>>
       ELSE \E ok \in BOOLEAN :
            /\ log' = Append(log, Ev("write", gi, CurGroup.name, CurFile, ok))
            /\ IF ok /\ CurFile \in DOMAIN tree /\ tree[CurFile] # Absent
               THEN /\ worktree' = [worktree EXCEPT ![CurFile] = tree[CurFile]]
                    /\ index' = [index EXCEPT ![CurFile] = tree[CurFile]]
                    /\ fi' = fi + 1
                    /\ exit' = exit
               ELSE /\ exit' = "fatal"
                    /\ UNCHANGED <<index, worktree, fi>>
    /\ UNCHANGED <<refs, HEAD, inputVars, snapVars, planVars, editVars,
                   currentBranch, gi, pc>>

\* main.go 274-296: the content is read from the source tree snapshot.
CopyFile == CopyFileFrom(sourceCommit.tree)

\* main.go 308, 317: the commit of the staging area on the checked-out
\* branch, with the message built from group.Files.
GroupCommitBy(author, when) ==
    MkCommit(index, <<HeadCommit>>, CurGroup.files, author, when)

\* main.go 309-316: the author is the repository's configured user and the
\* time is the source commit's.
GroupCommit == GroupCommitBy("repoConfig.User", sourceCommit.when)

\* A slip: a commit is made whether or not anything changed.
AlwaysCommits == FALSE

\* main.go 305: status.IsClean() skips the commit.
SkipsCommit == IsClean

\* main.go 300-322: after the files of the group, the commit is skipped when
\* the status is clean, else made; a failing commit is fatal.  A commit asked
\* for with nothing staged either fails or makes a commit that changes
\* nothing, depending on the version of the backend.
CommitIfDirtyWith(commit) ==
    /\ Running /\ pc = "files" /\ fi > Len(CurGroup.files)
    /\ IF SkipsCommit
       THEN /\ log' = Append(log, Ev("skip_commit", gi, CurGroup.name, "", TRUE))
            /\ gi' = gi + 1
            /\ pc' = "loop"
            /\ UNCHANGED <<refs, exit>>
       ELSE \E ok \in BOOLEAN :
            /\ log' = Append(log, Ev("commit", gi, CurGroup.name, "", ok))
            /\ IF ok
               THEN /\ refs' = [refs EXCEPT ![HEAD] = commit]
                    /\ gi' = gi + 1
                    /\ pc' = "loop"
                    /\ exit' = exit
               ELSE /\ exit' = "fatal"
                    /\ UNCHANGED <<refs, gi, pc>>
    /\ UNCHANGED <<HEAD, index, worktree, inputVars, snapVars, planVars,
                   editVars, currentBranch, fi>>

CommitIfDirty == CommitIfDirtyWith(GroupCommit)

\* A slip: the run ends on the base branch.
RestoreTargetBase == baseBranch

\* main.go 326-328: the branch checked out at the end.
RestoreTarget == currentBranch

\* main.go 325-331: after the last group the recorded branch is checked out;
\* a failure is fatal.
Restore ==
    /\ Running /\ pc = "loop" /\ gi > Len(editedConfig)
    /\ \E ok \in BOOLEAN :
        /\ log' = Append(log, Ev("restore", 0, RestoreTarget, "", ok))
        /\ IF ok /\ HasRef(RestoreTarget)
           THEN /\ HEAD' = RestoreTarget
                /\ index' = refs[RestoreTarget].tree
                /\ worktree' = CheckedOutWorktree(refs[RestoreTarget].tree)
                /\ pc' = "done"
                /\ exit' = "ok"
           ELSE /\ exit' = "fatal"
                /\ UNCHANGED <<HEAD, index, worktree, pc>>
    /\ UNCHANGED <<refs, inputVars, snapVars, planVars, editVars, loopVars>>

Next ==
    \/ Resolve
    \/ DiffCollect
    \/ Plan
    \/ WriteTemp
    \/ RunEditor
    \/ ReadBack
    \/ RecordHead
    \/ SkipGroup
    \/ CheckoutBase
    \/ CreateBranch
    \/ CopyFile
    \/ CommitIfDirty
    \/ Restore

Spec == Init /\ [][Next]_vars

\* The same run with --number 2: the planner makes one group, and the groups
\* the materializer walks are whatever the editor leaves.
InitMaterializer == Init /\ filesPerBranch = 2

SpecMaterializer == InitMaterializer /\ [][Next]_vars

(***************************************************************************)
(* Other users of the repository.  The run blocks while the editor is     *)
(* open (main.go 207); meanwhile the user, or another process, may switch *)
(* the working tree to another branch or add a commit to the base or the  *)
(* source branch.  Each is taken once at most.                            *)
(***************************************************************************)
EditorOpen == Running /\ pc = "editor"

\* git checkout <branch>, typed elsewhere while the editor is open.
EnvSwitch ==
    /\ EditorOpen /\ HEAD = origHead
    /\ \E b \in DOMAIN refs \ {HEAD} :
        /\ HEAD' = b
        /\ index' = refs[b].tree
        /\ worktree' = CheckedOutWorktree(refs[b].tree)
    /\ UNCHANGED <<refs, inputVars, snapVars, planVars, editVars, loopVars, pc,
                   exit, log>>

\* The path another commit changes, and its new content.
EnvPath == "a.txt"

\* A commit added to the base or the source branch while the editor is open;
\* when the branch is checked out the working tree follows it.
EnvCommit ==
    /\ EditorOpen /\ refs = before.refs
    /\ \E b \in {baseBranch, sourceBranch} :
        LET tree == [refs[b].tree EXCEPT ![EnvPath] = "v3"]
            c == MkCommit(tree, <<refs[b]>>, <<"other">>, "someone", "otherWhen")
        IN  /\ refs' = [refs EXCEPT ![b] = c]
            /\ IF b = HEAD
               THEN /\ index' = tree
                    /\ worktree' = CheckedOutWorktree(tree)
               ELSE UNCHANGED <<index, worktree>>
    /\ UNCHANGED <<HEAD, inputVars, snapVars, planVars, editVars, loopVars, pc,
                   exit, log>>

\* A run with two files to a group and no untracked file.
InitEnv == Init /\ filesPerBranch = 2 /\ worktree[LocalPath] = Absent

NextEnv == Next \/ EnvSwitch \/ EnvCommit

SpecEnv == InitEnv /\ [][NextEnv]_vars

(***************************************************************************)
(* The second variant of rootCmd.Run (main.go 386-666).  It differs from   *)
(* the first in three places: the plan is written without the description *)
(* (519-532), a file is copied by "git checkout sourceBranch -- file"     *)
(* (620-627), and the commit is signed with a fixed identity and the time *)
(* of the run (643-650).                                                   *)
(***************************************************************************)
\* main.go 519-532: yaml.Marshal(&cfg) is written as it is.
WriteTempShell == WriteTempOf(Marshal(cfg))

\* main.go 621: the tree the source branch points to when git is run.
LiveSourceTree == refs[sourceBranch].tree

\* main.go 609-633: the file is taken from the source branch by git.
CopyFileShell == CopyFileFrom(LiveSourceTree)

\* main.go 648: time.Now(), a different instant at every call.
Now == "now" \o ToString(Len(log))

\* main.go 643-650: the commit of the second variant.
GroupCommitShell == GroupCommitBy("go-git-user", Now)

\* main.go 635-655.
CommitIfDirtyShell == CommitIfDirtyWith(GroupCommitShell)

NextShell ==
    \/ Resolve
    \/ DiffCollect
    \/ Plan
    \/ WriteTempShell
    \/ RunEditor
    \/ ReadBack
    \/ RecordHead
    \/ SkipGroup
    \/ CheckoutBase
    \/ CreateBranch
    \/ CopyFileShell
    \/ CommitIfDirtyShell
    \/ Restore
    \/ EnvSwitch
    \/ EnvCommit

SpecShell == InitEnv /\ [][NextShell]_vars

(***************************************************************************)
(* The Diff Collector and the Partition Planner on their own: the same     *)
(* steps of the run, started on wider inputs.                              *)
(***************************************************************************)
\* The state at main.go 113 for any pair of trees over three paths.
InitDiff ==
    \E bs \in TreePairs(Range(DiffPathOrder)) :
        LET bc == BaseCommitOf(OnDisk(bs[1]))
            sc == SourceCommitOf(OnDisk(bs[2]), bc)
        IN  /\ refs = (baseBranch :> bc) @@ (sourceBranch :> sc)
            /\ HEAD = baseBranch
            /\ origHead = baseBranch
            /\ index = bc.tree
            /\ worktree = bc.tree
            /\ before = [refs |-> (baseBranch :> bc) @@ (sourceBranch :> sc),
                         index |-> bc.tree, worktree |-> bc.tree]
            /\ filesPerBranch = 1
            /\ baseCommit = bc
            /\ sourceCommit = sc
            /\ diffFiles = <<>>
            /\ cfg = <<>>
            /\ tmpFile = <<>>
            /\ tmpExists = FALSE
            /\ editorExit = "notrun"
            /\ decoded = FALSE
            /\ editedConfig = <<>>
            /\ currentBranch = ""
            /\ gi = 0
            /\ fi = 0
            /\ pc = "diff"
            /\ exit = "running"
            /\ log = <<>>

SpecDiff == InitDiff /\ [][DiffCollect]_vars

\* The lists of distinct files, one file at least.
DistinctLists(files) ==
    {l \in UNION {[1..m -> files] : m \in 1..Cardinality(files)} :
        \A i, j \in 1..Len(l) : i # j => l[i] # l[j]}

\* The state at main.go 149 for any list of distinct files and any --number
\* the flag parser lets through.
InitPlanner ==
    \E files \in DistinctLists(Range(PlanFileOrder)), n \in (-1)..MaxN :
        LET bc == BaseCommitOf(OnDisk(EmptyTree(Paths)))
            sc == SourceCommitOf(OnDisk(EmptyTree(Paths)), bc)
        IN  /\ refs = (baseBranch :> bc) @@ (sourceBranch :> sc)
            /\ HEAD = baseBranch
            /\ origHead = baseBranch
            /\ index = bc.tree
            /\ worktree = bc.tree
            /\ before = [refs |-> (baseBranch :> bc) @@ (sourceBranch :> sc),
                         index |-> bc.tree, worktree |-> bc.tree]
            /\ filesPerBranch = n
            /\ baseCommit = bc
            /\ sourceCommit = sc
            /\ diffFiles = files
            /\ cfg = <<>>
            /\ tmpFile = <<>>
            /\ tmpExists = FALSE
            /\ editorExit = "notrun"
            /\ decoded = FALSE
            /\ editedConfig = <<>>
            /\ currentBranch = ""
            /\ gi = 0
            /\ fi = 0
            /\ pc = "plan"
            /\ exit = "running"
            /\ log = <<>>

SpecPlanner == InitPlanner /\ [][Plan]_vars

(***************************************************************************)
(* The command line (main.go 335-347).  --number is an integer flag with   *)
(* default 0, marked required: a command line without it is refused by     *)
(* rootCmd.Execute and the process exits with status 1; any integer given  *)
(* is stored in filesPerBranch and rootCmd.Run is entered.                 *)
(***************************************************************************)
\* What the command line holds for --number: nothing, or an integer.
NumberArgs == {"missing"} \cup {ToString(n) : n \in (-1)..MaxN}

\* strconv's reading of the flag's value.
ParseInt(arg) == CHOOSE n \in (-1)..MaxN : ToString(n) = arg

\* main.go 341, 343-346: the flag was marked required and is not set.
RefusesNumber(arg) == arg = "missing"

\* main.go 335-347: the flags are parsed and rootCmd.Run is entered.
Execute ==
    /\ Running /\ pc = "flags"
    /\ \E arg \in NumberArgs :
        IF RefusesNumber(arg)
        THEN exit' = "usage" /\ UNCHANGED <<filesPerBranch, pc>>
        ELSE /\ filesPerBranch' = ParseInt(arg)
             /\ pc' = "resolve"
             /\ exit' = exit
    /\ UNCHANGED <<repoVars, origHead, before, snapVars, planVars, editVars,
                   loopVars, log>>

\* The state when main starts: no flag parsed yet, filesPerBranch at its
\* default (main.go 338).
InitFlags ==
    \E bs \in TreePairs(Paths), h \in {baseBranch, sourceBranch} :
        LET bc == BaseCommitOf(OnDisk(bs[1]))
            sc == SourceCommitOf(OnDisk(bs[2]), bc)
            r  == (baseBranch :> bc) @@ (sourceBranch :> sc)
        IN  /\ refs = r
            /\ HEAD = h
            /\ origHead = h
            /\ index = r[h].tree
            /\ worktree = r[h].tree
            /\ before = [refs |-> r, index |-> r[h].tree, worktree |-> r[h].tree]
            /\ filesPerBranch = 0
            /\ baseCommit = NoCommit
            /\ sourceCommit = NoCommit
            /\ diffFiles = <<>>
            /\ cfg = <<>>
            /\ tmpFile = <<>>
            /\ tmpExists = FALSE
            /\ editorExit = "notrun"
            /\ decoded = FALSE
            /\ editedConfig = <<>>
            /\ currentBranch = ""
            /\ gi = 0
            /\ fi = 0
            /\ pc = "flags"
            /\ exit = "running"
            /\ log = <<>>

NextFlags == Execute \/ Resolve \/ DiffCollect \/ Plan \/ WriteTemp

SpecFlags == InitFlags /\ [][NextFlags]_vars

(***************************************************************************)
(* The Plan Codec on its own: any plan within the bounds is encoded,       *)
(* written, left by the editor as it is (or spoilt), read back and         *)
(* decoded.                                                                *)
(***************************************************************************)
\* A repository whose base and source hold nothing, on the base branch.
BareRepo ==
    LET bc == BaseCommitOf(OnDisk(EmptyTree(Paths)))
        sc == SourceCommitOf(OnDisk(EmptyTree(Paths)), bc)
    IN  [refs |-> (baseBranch :> bc) @@ (sourceBranch :> sc),
         base |-> bc, source |-> sc]

\* The state at main.go 167 for any plan.
InitCodec ==
    \E plan \in EditedPlans :
        /\ refs = BareRepo.refs
        /\ HEAD = baseBranch
        /\ origHead = baseBranch
        /\ index = BareRepo.base.tree
        /\ worktree = BareRepo.base.tree
        /\ before = [refs |-> BareRepo.refs, index |-> BareRepo.base.tree,
                     worktree |-> BareRepo.base.tree]
        /\ filesPerBranch = 1
        /\ baseCommit = BareRepo.base
        /\ sourceCommit = BareRepo.source
        /\ diffFiles = <<>>
        /\ cfg = plan
        /\ tmpFile = <<>>
        /\ tmpExists = FALSE
        /\ editorExit = "notrun"
        /\ decoded = FALSE
        /\ editedConfig = <<>>
        /\ currentBranch = ""
        /\ gi = 0
        /\ fi = 0
        /\ pc = "write"
        /\ exit = "running"
        /\ log = <<>>

\* The editor leaves the file as it is, or with a line that is no plan.
KeptTexts == {tmpFile, Append(tmpFile, Line("junk", ""))}

EditorKeeps == EditorExits(KeptTexts)

NextCodec == WriteTemp \/ EditorKeeps \/ ReadBack

SpecCodec == InitCodec /\ [][NextCodec]_vars

(***************************************************************************)
(* Properties.                                                             *)
(***************************************************************************)
\* A call of this kind was made, with this outcome.
Happened(op, ok) == \E i \in 1..Len(log) : log[i].op = op /\ log[i].ok = ok

\* A call of this kind succeeded for the group at position g.
DidFor(g, op) ==
    \E i \in 1..Len(log) : log[i].g = g /\ log[i].op = op /\ log[i].ok

\* The run was stopped by log.Fatalf between the first group and the restore.
FatalInMaterializer == exit = "fatal" /\ pc \in {"loop", "create", "files"}

\* C1: a run that ends with exit status 0, whatever its groups (created,
\* skipped, or left without a commit), ends with the working tree checked out
\* to the branch that was checked out before the run began.
C1_EndsOnOriginalBranch == exit = "ok" => HEAD = origHead

\* A successful run that started away from the base branch, passed over an
\* empty group, and committed on the branch of another.
C1_Witness ==
    /\ exit = "ok"
    /\ origHead = sourceBranch
    /\ HEAD = sourceBranch
    /\ Len(editedConfig) = 2
    /\ Len(editedConfig[1].files) = 0
    /\ Happened("commit", TRUE)

\* A successful run with a group whose branch was left without a commit.
C1_WitnessNoCommit ==
    /\ exit = "ok"
    /\ origHead = sourceBranch
    /\ Happened("skip_commit", TRUE)
    /\ Happened("create", TRUE)

\* C2: when a fatal error stops the run during branch materialization, a
\* checkout of the originally recorded branch is still attempted before the
\* process exits.
C2_RestoreAttemptedOnFatal ==
    FatalInMaterializer => (Happened("restore", TRUE) \/ Happened("restore", FALSE))

\* The other half of C2: once the run is stopped, nothing more is done.
C2_NothingAfterFatal == [][exit = "fatal" => UNCHANGED vars]_vars

\* The least k with k * n >= len, for n >= 1.
CeilDiv(len, n) == CHOOSE k \in 0..len : (k - 1) * n < len /\ len <= k * n

RECURSIVE ConcatFiles(_)
ConcatFiles(plan) ==
    IF plan = <<>> THEN <<>>
    ELSE Head(plan).files \o ConcatFiles(Tail(plan))

\* C3: for a list of L >= 1 files and a group size n >= 1 the planner does
\* not fail, and its plan has ceil(L/n) groups whose file lists, concatenated
\* in order, are the input list; every group but the last has n files and
\* the last has between 1 and n.
C3_PartitionPlan ==
    filesPerBranch >= 1 =>
        /\ exit # "panic"
        /\ pc = "write" =>
            /\ Len(cfg) = CeilDiv(Len(diffFiles), filesPerBranch)
            /\ ConcatFiles(cfg) = diffFiles
            /\ \A i \in 1..(Len(cfg) - 1) : Len(cfg[i].files) = filesPerBranch
            /\ Len(cfg[Len(cfg)].files) \in 1..filesPerBranch

\* Five files in groups of two: two full groups and a last group of one.
C3_Witness ==
    /\ pc = "write"
    /\ diffFiles = PlanFileOrder
    /\ filesPerBranch = 2
    /\ Len(cfg) = 3
    /\ cfg[3].files = <<"f5">>

\* The paths the claim wants in the list, in tree-walk order: in source, and
\* new or different from base.
AddedOrModified(base, source) ==
    SelectSeq(OrderOf(base),
              LAMBDA p : source[p] # Absent /\ source[p] # base[p])

\* C4: the collected list holds no path that is only in base, no path that is
\* unchanged, and every path that is new in source or differs from base,
\* once each, in the order the diff reports them.
C4_DiffCollector ==
    pc # "diff" =>
        LET base == baseCommit.tree
            source == sourceCommit.tree
        IN  /\ \A p \in Range(diffFiles) : source[p] # Absent
            /\ \A p \in Range(diffFiles) : source[p] # base[p]
            /\ \A p \in DOMAIN base :
                  (source[p] # Absent /\ source[p] # base[p])
                      => Cardinality({i \in 1..Len(diffFiles) : diffFiles[i] = p}) = 1
            /\ diffFiles = AddedOrModified(base, source)

\* base {a, b}, source {a modified, b, c new}: the list is [a, c].
C4_Witness ==
    /\ pc = "plan"
    /\ baseCommit.tree["a.txt"] = "v1" /\ sourceCommit.tree["a.txt"] = "v2"
    /\ baseCommit.tree["b.txt"] = "v1" /\ sourceCommit.tree["b.txt"] = "v1"
    /\ baseCommit.tree["c.txt"] = Absent /\ sourceCommit.tree["c.txt"] = "v1"
    /\ diffFiles = <<"a.txt", "c.txt">>

\* The last call logged.
LastEv(l) == l[Len(l)]

\* C5: a group whose file list is empty is passed over: no checkout, no
\* branch, no commit, no error, and the run goes on with the next group.
C5_EmptyGroupSkipped ==
    [][(InLoop /\ Len(CurGroup.files) = 0)
          => /\ gi' = gi + 1
             /\ pc' = "loop"
             /\ exit' = "running"
             /\ UNCHANGED <<refs, HEAD, index, worktree, log>>]_vars

\* An empty first group was passed over and the second group got its branch.
C5_Witness ==
    /\ Len(editedConfig) = 2
    /\ Len(editedConfig[1].files) = 0
    /\ editedConfig[1].name \notin DOMAIN refs
    /\ editedConfig[2].name \in DOMAIN refs
    /\ \A i \in 1..Len(log) : log[i].g # 1
    /\ DidFor(2, "create")

\* The groups of the edited plan that carry a name.
GroupsNamed(name) ==
    {g \in 1..Len(editedConfig) : editedConfig[g].name = name}

\* C6: only the edited plan is acted on.  Every file written and staged for
\* a group is in that group's file list; while a group is in progress the
\* staging area differs from base only at paths of that group; every branch
\* the run created is named by a group of the edited plan and differs from
\* base only at paths some group of that name lists.
C6_ActsOnlyOnPlan ==
    /\ \A i \in 1..Len(log) :
          log[i].op = "write"
              => log[i].file \in Range(editedConfig[log[i].g].files)
    /\ (pc = "files")
          => \A p \in DOMAIN index :
                (index[p] # baseCommit.tree[p]
                    \/ (p # LocalPath /\ worktree[p] # baseCommit.tree[p]))
                    => p \in Range(CurGroup.files)
    /\ \A name \in DOMAIN refs \ DOMAIN before.refs :
          /\ GroupsNamed(name) # {}
          /\ \A p \in DOMAIN refs[name].tree :
                refs[name].tree[p] # baseCommit.tree[p]
                    => \E g \in GroupsNamed(name) :
                          p \in Range(editedConfig[g].files)

\* The planner made two groups; the user kept one group and one file; the
\* run succeeded, and the file dropped from the plan is in no new branch.
C6_Witness ==
    /\ exit = "ok"
    /\ Len(cfg) = 2
    /\ Len(editedConfig) = 1
    /\ Happened("commit", TRUE)
    /\ \E p \in Range(diffFiles) :
          /\ p \notin Range(editedConfig[1].files)
          /\ \A name \in DOMAIN refs \ DOMAIN before.refs :
                refs[name].tree[p] = baseCommit.tree[p]
    /\ cfg[2].name \notin DOMAIN refs

\* C7: creating the branch of a group whose name is taken (by the base or
\* source branch, or by the branch of an earlier group) is fatal: the run
\* stops there, nothing of the group is written or committed, no reference
\* changes, and no later group is processed.
C7_ExistingNameIsFatal ==
    [][/\ (Running /\ pc = "create" /\ CurGroup.name \in DOMAIN refs)
            => /\ exit' = "fatal"
               /\ UNCHANGED <<refs, HEAD, index, worktree, gi, fi, pc>>
               /\ LastEv(log') = Ev("create", gi, CurGroup.name, "", FALSE)
       /\ exit = "fatal" => UNCHANGED vars]_vars

\* The second group carries the name of the first, whose branch holds the
\* first group's commit: the run stopped and that commit is untouched.
C7_Witness ==
    /\ exit = "fatal" /\ pc = "create" /\ gi = 2
    /\ editedConfig[2].name = editedConfig[1].name
    /\ DidFor(1, "commit")
    /\ refs[editedConfig[1].name].msg = editedConfig[1].files
    /\ \A i \in 1..Len(log) :
          log[i].g = 2 => log[i].op \notin {"write", "commit"}

\* C8: a listed path that the source snapshot does not hold is skipped with
\* a warning: nothing is written or staged, no error is raised, and the run
\* goes on with the next file of the group.
C8_MissingFileSkipped ==
    [][(InFiles /\ ~InSourceTree(CurFile))
          => /\ exit' = "running"
             /\ fi' = fi + 1
             /\ log' = Append(log, Ev("warn", gi, CurGroup.name, CurFile, TRUE))
             /\ UNCHANGED <<refs, HEAD, index, worktree, gi, pc>>]_vars

\* A file of the first group was skipped, a later file of that group was
\* written, and the second group was processed.
C8_Witness ==
    \E i, j, k \in 1..Len(log) :
        /\ i < j /\ j < k
        /\ log[i].op = "warn" /\ log[i].g = 1
        /\ log[j].op = "write" /\ log[j].g = 1 /\ log[j].ok
        /\ log[k].op = "create" /\ log[k].g = 2 /\ log[k].ok
        /\ worktree[log[i].file] = baseCommit.tree[log[i].file]

\* C9: after the files of a group, a commit is made if and only if a change
\* is staged: with nothing staged the commit is skipped without error and
\* the run goes on; otherwise one commit is made.  Whatever else is in the
\* working tree.
C9_CommitIffStaged ==
    [][(Running /\ pc = "files" /\ fi > Len(CurGroup.files))
          => IF HasStagedChanges
             THEN LastEv(log').op = "commit"
             ELSE /\ LastEv(log').op = "skip_commit"
                  /\ exit' = "running"
                  /\ gi' = gi + 1
                  /\ UNCHANGED refs]_vars

\* The repository and the working tree are as they were before the run.
Untouched ==
    /\ log = <<>>
    /\ refs = before.refs
    /\ HEAD = origHead
    /\ index = before.index
    /\ worktree = before.worktree

\* C10: a failed editor or a text that does not parse ends the run fatally
\* before the materializer starts, with the repository and the working tree
\* untouched; every call to the backend that changes something comes after
\* the editor exited with status zero and the plan decoded without error.
C10_NoPartialApplication ==
    /\ editorExit = "nonzero" => exit = "fatal"
    /\ (editorExit # "zero" \/ ~decoded)
          => /\ Untouched
             /\ pc \notin {"head", "loop", "create", "files"}
    /\ (pc = "read" /\ ~tmpExists) => exit = "fatal"

\* The editor exited with status zero, the file was read and removed, and the
\* text did not parse.
C10_Witness ==
    /\ exit = "fatal" /\ pc = "read"
    /\ editorExit = "zero" /\ ~tmpExists /\ ~decoded
    /\ Len(cfg) = 2
    /\ Untouched

\* The editor exited with a non-zero status.
C10_WitnessEditor ==
    exit = "fatal" /\ pc = "editor" /\ editorExit = "nonzero" /\ Untouched

\* The names and the file lists of a plan, in order.
NamesOf(plan) == [i \in 1..Len(plan) |-> plan[i].name]
FilesOf(plan) == [i \in 1..Len(plan) |-> plan[i].files]

\* C11: decoding the encoding of a plan, explanatory comment lines included,
\* gives the plan back: the same group names and the same file lists in the
\* same order.  So when the editor exits leaving the file as it was written,
\* reading it back does not fail and the plan handed to the materializer is
\* the plan that was encoded.
C11_CodecRoundTrip ==
    [][(Running /\ pc = "read" /\ tmpFile = Encode(cfg) /\ ~tmpExists')
          => /\ exit' = "running"
             /\ pc' = "head"
             /\ Len(editedConfig') = Len(cfg)
             /\ NamesOf(editedConfig') = NamesOf(cfg)
             /\ FilesOf(editedConfig') = FilesOf(cfg)]_vars

\* A plan of two groups, the first with two files and the second with none,
\* came back as it was written, behind its three explanatory lines.
C11_Witness ==
    /\ pc = "head" /\ editorExit = "zero" /\ decoded
    /\ Len(cfg) = 2
    /\ cfg[1].files = PathOrder /\ cfg[2].files = <<>>
    /\ cfg[1].name # cfg[2].name
    /\ editedConfig = cfg
    /\ SubSeq(Encode(cfg), 1, 3) = description

\* The names the claim expects, spelled out: position i holds <prefix>_<i>.
NumberedNames == <<"split_1", "split_2", "split_3", "split_4", "split_5">>

\* C12: in the planner's plan the group at 1-based position i is named
\* <prefix>_<i>: the names are pairwise distinct and numbered from 1 to the
\* number of groups, ceil(L/n), in plan order; [f1..f5] in groups of two is
\* split_1:[f1,f2], split_2:[f3,f4], split_3:[f5].
C12_GeneratedNames ==
    pc = "write" =>
        /\ \A i \in 1..Len(cfg) : cfg[i].name = NumberedNames[i]
        /\ \A i, j \in 1..Len(cfg) : i # j => cfg[i].name # cfg[j].name
        /\ filesPerBranch >= 1
              => NamesOf(cfg)
                   = SubSeq(NumberedNames, 1,
                            CeilDiv(Len(diffFiles), filesPerBranch))
        /\ (diffFiles = PlanFileOrder /\ filesPerBranch = 2)
              => cfg = <<[name |-> "split_1", files |-> <<"f1", "f2">>],
                         [name |-> "split_2", files |-> <<"f3", "f4">>],
                         [name |-> "split_3", files |-> <<"f5">>]>>

\* The scenario's plan was built: three groups, the last named split_3.
C12_Witness ==
    /\ pc = "write" /\ exit = "running"
    /\ diffFiles = PlanFileOrder /\ filesPerBranch = 2
    /\ NamesOf(cfg) = <<"split_1", "split_2", "split_3">>

\* The branches the run created that carry a commit of their own.
Committed ==
    {name \in DOMAIN refs \ DOMAIN before.refs : refs[name] # baseCommit}

\* C13: every commit made for a group carries the identity configured in the
\* repository and the author time of the source commit resolved at the
\* start: never a fixed identity, never the time of the run, so all commits
\* of a run carry one time.
C13_AuthorAndTime ==
    /\ \A name \in Committed :
          /\ refs[name].author = "repoConfig.User"
          /\ refs[name].when = sourceCommit.when
    /\ \A m, n \in Committed : refs[m].when = refs[n].when

\* Two groups were committed and the run succeeded.
C13_TwoCommits ==
    /\ exit = "ok"
    /\ Cardinality(Committed) = 2

\* C14: --number is a positive integer: a command line where it is missing,
\* zero or negative is refused at startup, before the repository is read,
\* so the planner never runs with n < 1: it neither divides by zero nor
\* hands an empty plan to the editor.
C14_NumberIsPositive ==
    /\ (pc # "flags") => filesPerBranch >= 1
    /\ exit # "panic"
    /\ (pc \in {"write", "editor"}) => Len(cfg) >= 1

\* The branches the run created.
Created == DOMAIN refs \ DOMAIN before.refs

\* C15: the base and the source are resolved once and never again: every
\* file copied for a group gets the content it has in the source tree read
\* at the start, and every group branch is rooted at the base commit read at
\* the start, wherever the base and source branches point by then (they may
\* have moved while the editor was open).
C15_SnapshotsOnly ==
    /\ (pc = "files")
          => \A k \in 1..(fi - 1) :
                LET file == CurGroup.files[k]
                IN  InSourceTree(file)
                      => /\ worktree[file] = sourceCommit.tree[file]
                         /\ index[file] = sourceCommit.tree[file]
    /\ \A name \in Created :
          refs[name] = baseCommit \/ refs[name].parents = <<baseCommit>>

\* Both branches moved on after they were resolved, and a group was copied
\* and committed.
C15_MovedThenCopied ==
    /\ refs[sourceBranch] # sourceCommit
    /\ EnvPath \in Range(diffFiles)
    /\ \E name \in Committed : EnvPath \in Range(refs[name].msg)

\* The group that created a branch: the first one of that name with files.
Creator(name) ==
    CHOOSE g \in 1..Len(editedConfig) :
        /\ editedConfig[g].name = name /\ Len(editedConfig[g].files) > 0
        /\ \A h \in 1..(g - 1) :
              ~(editedConfig[h].name = name /\ Len(editedConfig[h].files) > 0)

\* The base tree with the group's files that the source snapshot holds.
Overlaid(g) ==
    [p \in DOMAIN baseCommit.tree |->
        IF p \in Range(editedConfig[g].files) /\ InSourceTree(p)
        THEN sourceCommit.tree[p]
        ELSE baseCommit.tree[p]]

\* C16: groups are isolated.  Every branch the run created starts at the
\* base commit, never at the branch of an earlier group; its tip differs from
\* the base tree only at paths of its own group that the source snapshot
\* holds, where it has the source content; once its group is done the tip is
\* the base tree with exactly those paths taken from the source; and a file
\* copied for one group is unchanged in the branch of every group that does
\* not list it, whatever the order of the groups.
C16_GroupsIsolated ==
    \A name \in Created :
        LET g == Creator(name)
            tip == refs[name]
        IN  /\ tip = baseCommit \/ tip.parents = <<baseCommit>>
            /\ \A p \in DOMAIN tip.tree :
                  tip.tree[p] # baseCommit.tree[p]
                      => /\ p \in Range(editedConfig[g].files)
                         /\ InSourceTree(p)
                         /\ tip.tree[p] = sourceCommit.tree[p]
            /\ (g < gi) => tip.tree = Overlaid(g)
            /\ \A other \in Created \ {name} :
                  \A p \in Range(editedConfig[Creator(other)].files)
                            \ Range(editedConfig[g].files) :
                      tip.tree[p] = baseCommit.tree[p]

\* Both files differ between base and source; the plan was turned round, b
\* first and a second; both groups were committed, and each branch holds
\* the other group's file as the base has it.
C16_Witness ==
    /\ exit = "ok"
    /\ Len(editedConfig) = 2
    /\ editedConfig[1].files = <<"b.txt">> /\ editedConfig[2].files = <<"a.txt">>
    /\ Cardinality(Committed) = 2
    /\ \A p \in Paths : sourceCommit.tree[p] # baseCommit.tree[p]
    /\ refs[editedConfig[1].name].tree["a.txt"] = baseCommit.tree["a.txt"]
    /\ refs[editedConfig[2].name].tree["b.txt"] = baseCommit.tree["b.txt"]
    /\ refs[editedConfig[2].name].tree["a.txt"] = sourceCommit.tree["a.txt"]

\* The steps of the materializer as the log shows them.
IsFileStep(e) == e.op \in {"warn", "write"}
IsLastStep(e) == e.op \in {"commit", "skip_commit"}

\* How many files of its group had been handled when step i was logged.
FileStepsUpTo(i) ==
    Cardinality({j \in 1..i : log[j].g = log[i].g /\ IsFileStep(log[j])})

\* The group was brought to its last step.
DoneAt(g, i) ==
    \E j \in 1..i : log[j].g = g /\ IsLastStep(log[j]) /\ log[j].ok

\* C17: materialization is sequential and ordered.  Groups are taken in
\* plan order; for a group that is not skipped the steps are checkout of
\* base, creation of the branch, the files in the order of the list, then
\* the commit (or its omission); no step of a group comes before the last
\* step of the group before it; the original branch is recorded before the
\* first step and checked out again only after the last group.
C17_SequentialInOrder ==
    /\ (log # <<>>) => currentBranch # ""
    /\ \A i \in 1..Len(log) :
          LET e == log[i]
              files == editedConfig[e.g].files
          IN  /\ (i > 1) => log[i - 1].ok
              /\ (e.op # "restore") => e.g \in 1..Len(editedConfig)
              /\ (e.op = "checkout_base")
                    => /\ Len(files) > 0
                       /\ (i > 1) => (IsLastStep(log[i - 1]) /\ log[i - 1].g < e.g)
                       /\ \A h \in 1..(e.g - 1) :
                             Len(editedConfig[h].files) > 0 => DoneAt(h, i - 1)
              /\ (e.op = "create")
                    => /\ i > 1
                       /\ log[i - 1].op = "checkout_base" /\ log[i - 1].g = e.g
              /\ IsFileStep(e)
                    => /\ i > 1 /\ log[i - 1].g = e.g
                       /\ log[i - 1].op = "create" \/ IsFileStep(log[i - 1])
                       /\ FileStepsUpTo(i) <= Len(files)
                       /\ e.file = files[FileStepsUpTo(i)]
              /\ IsLastStep(e)
                    => /\ i > 1 /\ log[i - 1].g = e.g
                       /\ IsFileStep(log[i - 1])
                       /\ FileStepsUpTo(i) = Len(files)
              /\ (e.op = "restore")
                    => /\ i = Len(log)
                       /\ e.name = currentBranch
                       /\ (i > 1) => IsLastStep(log[i - 1])
                       /\ \A h \in 1..Len(editedConfig) :
                             Len(editedConfig[h].files) > 0 => DoneAt(h, i - 1)
    /\ (exit = "ok" /\ pc = "done" /\ currentBranch # "")
          => (log # <<>> /\ LastEv(log).op = "restore")

\* A run of two groups, the first of two files and the second of one, went
\* through all its steps: eight for the groups, then the restore.
C17_Witness ==
    /\ exit = "ok"
    /\ Len(editedConfig) = 2
    /\ Len(editedConfig[1].files) = 2 /\ Len(editedConfig[2].files) = 1
    /\ Len(log) = 10
    /\ log[3].file = "a.txt" /\ log[4].file = "b.txt"
    /\ log[5].g = 1 /\ log[6].g = 2
    /\ log[10].op = "restore"

\* The process has ended, with whatever status.
Ended == exit # "running"

\* C18: the temporary file is removed after the attempt to read it back,
\* whatever the outcome of the read: once the editor has exited with status
\* zero, the file is gone when the process ends, whether the read succeeded
\* or failed.
C18_TempFileRemoved ==
    (Ended /\ editorExit = "zero") => ~tmpExists

\* How many times the recorded branch was checked out again.
Restores == Cardinality({i \in 1..Len(log) : log[i].op = "restore"})

\* C19: the original branch is the branch checked out when the program
\* started: that is the branch the run records, and the branch a successful
\* run leaves checked out, restored once, at the very end; not a branch that
\* became current later, for example while the editor was open.
C19_OriginalIsStartBranch ==
    /\ (currentBranch # "") => currentBranch = origHead
    /\ (exit = "ok") => HEAD = origHead
    /\ Restores <= 1
    /\ (Restores = 1) => LastEv(log).op = "restore"

\* The files written and staged for a group, and those passed over.
CopiedFor(g) ==
    {log[i].file : i \in {j \in 1..Len(log) :
        log[j].g = g /\ log[j].op = "write" /\ log[j].ok}}
WarnedFor(g) ==
    {log[i].file : i \in {j \in 1..Len(log) :
        log[j].g = g /\ log[j].op = "warn"}}

\* C20: the message of a group's commit names the files that were updated in
\* that group: exactly those copied from the source snapshot and staged, and
\* none that was passed over because the source tree does not hold it.
C20_MessageNamesCopiedFiles ==
    \A name \in Committed :
        /\ Range(refs[name].msg) = CopiedFor(Creator(name))
        /\ Range(refs[name].msg) \cap WarnedFor(Creator(name)) = {}

\* C21: whatever the run does, and however it ends, every branch that existed
\* before the run points to the commit it pointed to before the run.  The
\* only references the run creates or moves are branches that did not exist
\* before and carry the name of a group of the edited plan: such a branch is
\* created at the base commit and moved at most once, by one commit.
C21_OnlyGroupBranchesMove ==
    [][/\ \A b \in DOMAIN before.refs :
             b \in DOMAIN refs' /\ refs'[b] = before.refs[b]
       /\ DOMAIN refs \subseteq DOMAIN refs'
       /\ \A b \in DOMAIN refs' \ DOMAIN refs :
             /\ \E g \in 1..Len(editedConfig) : editedConfig[g].name = b
             /\ refs'[b] = baseCommit
       /\ \A b \in DOMAIN refs :
             refs'[b] # refs[b]
                 => /\ b \notin DOMAIN before.refs
                    /\ \E g \in 1..Len(editedConfig) : editedConfig[g].name = b
                    /\ refs[b] = baseCommit
                    /\ refs'[b].parents = <<baseCommit>>]_vars

\* A run that committed on the branch of its first group and was then
\* stopped by a fatal error in the second: the base and source branches are
\* where they were.
C21_Witness ==
    /\ exit = "fatal" /\ gi = 2
    /\ Cardinality(Committed) = 1
    /\ DOMAIN before.refs = {baseBranch, sourceBranch}
    /\ \A b \in DOMAIN before.refs : refs[b] = before.refs[b]
    /\ refs[baseBranch] # refs[sourceBranch]

\* The names of the groups of the edited plan that list a file.
NamesWithFiles ==
    {editedConfig[g].name :
        g \in {h \in 1..Len(editedConfig) : Len(editedConfig[h].files) > 0}}

\* Every file of the group is missing from the source snapshot or is there
\* as the base has it.
NothingToCopy(g) ==
    \A p \in Range(editedConfig[g].files) :
        ~InSourceTree(p) \/ sourceCommit.tree[p] = baseCommit.tree[p]

\* C22: after a successful run the branches created are those named by the
\* groups of the edited plan that list a file; such a group gets its branch
\* also when none of its files is in the source tree or differs from base,
\* and then the branch has no commit of its own: it points at the base
\* commit.
C22_BranchesAreGroupsWithFiles ==
    (exit = "ok")
        => /\ Created = NamesWithFiles
           /\ \A name \in Created :
                 NothingToCopy(Creator(name)) => refs[name] = baseCommit

\* A successful run with one group whose only file the source does not hold:
\* the branch is there, at the base commit.
C22_BranchWithoutCommit ==
    /\ exit = "ok"
    /\ Len(editedConfig) = 1
    /\ Len(editedConfig[1].files) = 1
    /\ ~InSourceTree(editedConfig[1].files[1])
    /\ Created = {editedConfig[1].name}
    /\ refs[editedConfig[1].name] = baseCommit

\* The snapshots hold no path that is new in source or differs from base:
\* the trees are identical, or source only lacks paths of base.
NothingAddedOrModified ==
    \A p \in DOMAIN sourceCommit.tree :
        sourceCommit.tree[p] = Absent
            \/ sourceCommit.tree[p] = baseCommit.tree[p]

\* C23: when the diff between base and source holds no added and no
\* modified file, the run ends with status 0 right after the diff is
\* collected, and that is the only step it takes: no plan is built, no
\* temporary file is written, the editor is not started, nothing is checked
\* out and no branch is created.
C23_EmptyDiffEndsEarly ==
    [][(pc # "resolve" /\ NothingAddedOrModified)
          => /\ pc = "diff"
             /\ pc' = "done" /\ exit' = "ok"
             /\ diffFiles' = <<>> /\ cfg' = <<>>
             /\ tmpFile' = <<>> /\ ~tmpExists'
             /\ editorExit' = "notrun"
             /\ currentBranch' = ""
             /\ Untouched'
             /\ UNCHANGED <<refs, HEAD, index, worktree, log>>]_vars

\* Source only lacks a file of base: the run ended with status 0 and nothing
\* was done.
C23_Witness ==
    /\ exit = "ok" /\ pc = "done"
    /\ \E p \in Paths :
          baseCommit.tree[p] # Absent /\ sourceCommit.tree[p] = Absent
    /\ \A p \in Paths :
          sourceCommit.tree[p] \in {Absent, baseCommit.tree[p]}
    /\ cfg = <<>> /\ ~tmpExists /\ editorExit = "notrun"
    /\ Untouched

====
